---- MODULE Spec2Model ----
\* Flow execution endpoints of langflow (api/v1/endpoints.py): process_flow
\* (launch of a stored flow, synchronous or asynchronous) and get_task_status
\* (poll of a dispatched task), over a task service and a flow store.
EXTENDS Integers, Sequences, FiniteSets, TLC

VARIABLES
    flows,       \* the Flow table: flow id -> [user_id, data]
    use_celery,  \* task_service.use_celery, fixed at startup
    tasks,       \* the task service's records, indexed by task id 1..Len(tasks)
    waiting,     \* per task id: the process_flow suspended on it, or None
    polling,     \* the get_task_status between its reads of the task, or None
    last         \* the last thing a handler did: what it was asked and how it ended

vars == <<flows, use_celery, tasks, waiting, polling, last>>

\* ---------------------------------------------------------------- bounds

\* Most tasks the task service holds in one run.
MaxTasks == 1

\* ---------------------------------------------------------------- values

\* Python None, where a string is expected.
NoUser == "None"
NoSession == "None"

Users == {"u1", "u2"}
Sessions == {"s1"}
\* The session id the graph evaluator makes up when it is given none.
GeneratedSession == "generated"

\* A graph definition: node -> value of its field.
Nodes == {"nodeA", "nodeB"}
G1 == [nodeA |-> 1, nodeB |-> 2]
G2 == [nodeA |-> 3, nodeB |-> 4]

\* Optional values: <<>> is None, <<x>> is x.
None == <<>>
Some(x) == <<x>>

\* Flow ids the requests use: three stored flows, a well-formed id of no flow,
\* and a string that is no UUID.
MalformedIds == {"not-a-uuid"}
FlowIds == {"f1", "f2", "f3", "f4"} \cup MalformedIds

InitFlows ==
    [f \in {"f1", "f2", "f3"} |->
        CASE f = "f1" -> [user_id |-> "u1", data |-> Some(G1)]
          [] f = "f2" -> [user_id |-> "u2", data |-> Some(G2)]
          [] f = "f3" -> [user_id |-> "u1", data |-> None]]

\* The tweaks a request may carry: None, {}, an override of an existing node,
\* overrides of an existing and of an absent node, and a payload that is no
\* mapping.
TweakKinds == {"none", "empty", "valid", "mixed", "malformed"}

TweakOf(kind) ==
    CASE kind = "none"      -> [is_none |-> TRUE,  is_dict |-> FALSE, map |-> <<>>]
      [] kind = "empty"     -> [is_none |-> FALSE, is_dict |-> TRUE,  map |-> <<>>]
      [] kind = "valid"     -> [is_none |-> FALSE, is_dict |-> TRUE,
                                map |-> [p \in {"nodeA"} |-> 5]]
      [] kind = "mixed"     -> [is_none |-> FALSE, is_dict |-> TRUE,
                                map |-> [p \in {"nodeA", "nodeZ"} |->
                                            IF p = "nodeA" THEN 5 ELSE 7]]
      [] kind = "malformed" -> [is_none |-> FALSE, is_dict |-> FALSE, map |-> <<>>]

\* Python truthiness of the tweaks argument (None and {} are falsy).
Truthy(tweaks) ==
    /\ ~tweaks.is_none
    /\ (tweaks.is_dict => DOMAIN tweaks.map # {})

\* A task result is a value with its wrappers listed outside in: <<"v">> is a
\* plain value, <<"dict", "v">> a dict {"result": v, "session_id": s},
\* <<"obj", "v">> an object with .result and .session_id, and wrappers nest.
PyNone == <<"None">>
IsDictWithResult(value) == Head(value) = "dict"
HasAttrResult(value) == Head(value) = "obj"

ResultShapes ==
    { <<"v">>, <<"dict", "v">>, <<"obj", "v">>,
      <<"dict", "obj", "v">>, <<"obj", "dict", "v">> }

\* Exceptions: [type, msg].
Exc(type, msg) == [type |-> type, msg |-> msg]
FlowNotFoundMsg(flow_id) == <<"Flow", flow_id, "not found">>
FlowNoDataMsg(flow_id) == <<"Flow", flow_id, "has no data">>
BadlyFormedMsg == <<"badly formed hexadecimal UUID string">>
StatementMsgs == {BadlyFormedMsg, <<"invalid input syntax for type uuid">>}

\* ---------------------------------------------------------------- outcomes

\* How a handler ends: a response model, an HTTPException, an exception no
\* handler catches (the framework's internal error), or, for process_flow, a
\* plain return of None.
ProcessResponse(result, id, session_id) ==
    [kind |-> "response", result |-> result, id |-> id, session_id |-> session_id]
TaskStatusResponse(status, result) ==
    [kind |-> "response", status |-> status, result |-> result]
HTTPException(status_code, detail) ==
    [kind |-> "http_error", status_code |-> status_code, detail |-> detail]
Unhandled(exc) == [kind |-> "unhandled_error", exc |-> exc]
ReturnedNone == [kind |-> "none"]
Awaiting == [kind |-> "awaiting"]

\* ---------------------------------------------------------------- collaborators

\* Tweak Merge Engine: a payload that is no mapping fails as a whole; in a
\* mapping every entry whose target exists replaces that node's value and
\* every other entry is skipped. The input graph is not changed.
process_tweaks(graph_data, tweaks) ==
    IF ~tweaks.is_dict
    THEN [raised |-> TRUE, graph |-> graph_data]
    ELSE [raised |-> FALSE,
          graph |-> [n \in DOMAIN graph_data |->
                        IF n \in DOMAIN tweaks.map THEN tweaks.map[n]
                        ELSE graph_data[n]]]

\* TaskService.get_task: the record of a known id, None for an unknown one.
get_task(ts, task_id) ==
    IF task_id \in 1..Len(ts) THEN Some(ts[task_id]) ELSE None

\* task.ready(): the task has completed, successfully or not.
ready(task) == task.status \in {"succeeded", "failed"}

\* The session id of an evaluation's result: the one passed in, or a fresh one.
ResultSession(session_id) ==
    IF session_id = NoSession THEN GeneratedSession ELSE session_id

\* A TaskRecord at dispatch time. The result is present once the task has
\* succeeded, the error once it has failed.
NewTask(status) == [status |-> status, result |-> PyNone, error |-> None]

\* The locals of a process_flow suspended in the await of its dispatch:
\* launch_and_await_task (sync) or launch_task.
Frame(flow_id, session_id, sync) ==
    Some([flow_id |-> flow_id, session_id |-> session_id, sync |-> sync])

\* ---------------------------------------------------------------- process_flow

\* QueryFlow without .filter(Flow.user_id == api_key_user.id).
QueryFlow_AnyOwner(fl, flow_id, user) ==
    IF flow_id \in MalformedIds
    THEN [raised |-> TRUE, flow |-> None]
    ELSE LET hit == {f \in DOMAIN fl : f = flow_id}
         IN [raised |-> FALSE,
             flow |-> IF hit = {} THEN None ELSE Some(CHOOSE f \in hit : TRUE)]

\* session.query(Flow).filter(id == flow_id).filter(user_id == user.id).first()
\* A flow id that is no UUID makes the statement fail.
QueryFlow(fl, flow_id, user) ==
    IF flow_id \in MalformedIds
    THEN [raised |-> TRUE, flow |-> None]
    ELSE LET hit == {f \in DOMAIN fl : f = flow_id /\ fl[f].user_id = user}
         IN [raised |-> FALSE,
             flow |-> IF hit = {} THEN None ELSE Some(CHOOSE f \in hit : TRUE)]

\* GraphData without the try/except around process_tweaks.
GraphData_NoExcept(data, tweaks) ==
    IF Truthy(tweaks)
    THEN LET r == process_tweaks(data, tweaks)
         IN IF r.raised
            THEN [exc |-> Some(Exc("Exception", <<"tweaks are no mapping">>)),
                  graph |-> data]
            ELSE [exc |-> None, graph |-> r.graph]
    ELSE [exc |-> None, graph |-> data]

\* graph_data = flow.data, replaced by the tweaked graph when tweaks are given
\* and the merge succeeds; a failing merge is logged and swallowed.
GraphData(data, tweaks) ==
    IF Truthy(tweaks)
    THEN LET r == process_tweaks(data, tweaks)
         IN IF r.raised THEN [exc |-> None, graph |-> data]
            ELSE [exc |-> None, graph |-> r.graph]
    ELSE [exc |-> None, graph |-> data]

\* The handler up to the dispatch: the exception it raises, or the graph.
Prepare(fl, user, flow_id, tweaks, stmt) ==
    IF user = NoUser
    THEN [exc |-> Some(Exc("HTTPException", <<"Invalid API Key">>)), graph |-> G1]
    ELSE LET q == QueryFlow(fl, flow_id, user) IN
         IF q.raised
         THEN [exc |-> Some(Exc("StatementError", stmt)), graph |-> G1]
         ELSE IF q.flow = None
         THEN [exc |-> Some(Exc("ValueError", FlowNotFoundMsg(flow_id))), graph |-> G1]
         ELSE IF fl[q.flow[1]].data = None
         THEN [exc |-> Some(Exc("ValueError", FlowNoDataMsg(flow_id))), graph |-> G1]
         ELSE GraphData(fl[q.flow[1]].data[1], tweaks)

\* The except clauses of process_flow.
HandleException(exc, flow_id) ==
    IF exc.type = "StatementError"
    THEN IF exc.msg = BadlyFormedMsg
         THEN HTTPException(404, exc.msg)
         ELSE ReturnedNone
    ELSE IF exc.type = "ValueError"
    THEN IF exc.msg = FlowNotFoundMsg(flow_id)
         THEN HTTPException(404, exc.msg)
         ELSE HTTPException(500, exc.msg)
    ELSE HTTPException(500, exc.msg)

\* The function handed to the task service.
Work == IF use_celery THEN "process_graph_cached_task" ELSE "process_graph_cached"

\* What launch_and_await_task's result becomes: the response, or the
\* exception the attribute access raises.
SyncResponse(result, task_id, frame) ==
    IF IsDictWithResult(result)
    THEN ProcessResponse(Tail(result), task_id, ResultSession(frame.session_id))
    ELSE IF HasAttrResult(result)
    THEN ProcessResponse(Tail(result), task_id, ResultSession(frame.session_id))
    ELSE HandleException(Exc("AttributeError", <<"no attribute 'result'">>),
                         frame.flow_id)

LaunchEvent(req, dispatched, task_id, out) ==
    [op |-> "process_flow", phase |-> "launch", req |-> req,
     dispatched |-> dispatched, task_id |-> task_id, out |-> out]

\* process_flow from the request to its first suspension: everything but the
\* return from the awaited launch_and_await_task or launch_task. env is what
\* the collaborators answer: the statement error's message and the backend's
\* answer to the dispatch (unreachable, or the status the new task starts in).
\* Launch requests are followed only while the task service holds fewer
\* than MaxTasks tasks.
Handler(req, env) ==
    LET pre == Prepare(flows, req.user, req.flow_id, TweakOf(req.tweaks), env.stmt)
        call == {[graph |-> pre.graph, work |-> Work,
                  mode |-> IF req.sync THEN "launch_and_await_task" ELSE "launch_task"]}
        id == Len(tasks) + 1
    IN
    /\ Len(tasks) < MaxTasks
    /\ IF pre.exc # None
       THEN /\ UNCHANGED <<tasks, waiting>>
            /\ last' = LaunchEvent(req, {}, 0, HandleException(pre.exc[1], req.flow_id))
       ELSE IF env.backend = "unavailable"
       THEN /\ UNCHANGED <<tasks, waiting>>
            /\ last' = LaunchEvent(req, call, 0,
                          HandleException(Exc("Exception", <<"backend unavailable">>),
                                          req.flow_id))
       ELSE /\ tasks' = Append(tasks, NewTask(env.backend))
            /\ waiting' = Append(waiting, Frame(req.flow_id, req.session_id, req.sync))
            /\ last' = LaunchEvent(req, call, id, Awaiting)

\* process_flow assigning the tweaked graph to flow.data of the stored flow.
process_flow_StoresTweaked(req, env) ==
    /\ Handler(req, env)
    /\ LET pre == Prepare(flows, req.user, req.flow_id, TweakOf(req.tweaks), env.stmt)
       IN flows' = IF pre.exc = None
                   THEN [flows EXCEPT ![req.flow_id].data = Some(pre.graph)]
                   ELSE flows
    /\ UNCHANGED use_celery
    /\ UNCHANGED polling

process_flow(req, env) ==
    /\ Handler(req, env)
    /\ UNCHANGED <<flows, use_celery>>
    /\ UNCHANGED polling

\* What launch_task's task becomes: the response with the status the task
\* has when the await returns.
AsyncResponse(task, task_id, frame) ==
    ProcessResponse(<<task.status>>, task_id, frame.session_id)

ReturnEvent(t, out) ==
    [op |-> "process_flow", phase |-> "return", task_id |-> t,
     sync |-> waiting[t][1].sync, session_id |-> waiting[t][1].session_id,
     returned |-> tasks[t], out |-> out]

\* process_flow dispatching the work again when its task has failed.
process_flow_return_Retries(t) ==
    /\ t \in 1..Len(tasks)
    /\ waiting[t] # None
    /\ waiting[t][1].sync => ready(tasks[t])
    /\ IF waiting[t][1].sync /\ tasks[t].status = "failed"
       THEN /\ tasks' = Append(tasks, NewTask("pending"))
            /\ waiting' = Append([waiting EXCEPT ![t] = None], waiting[t])
            /\ last' = ReturnEvent(t, Awaiting)
       ELSE /\ tasks' = tasks
            /\ waiting' = [waiting EXCEPT ![t] = None]
            /\ last' = ReturnEvent(t,
                          IF ~waiting[t][1].sync
                          THEN AsyncResponse(tasks[t], t, waiting[t][1])
                          ELSE SyncResponse(tasks[t].result, t, waiting[t][1]))
    /\ UNCHANGED <<flows, use_celery>>
    /\ UNCHANGED polling

\* The awaited dispatch returns (or raises) and process_flow ends:
\* launch_and_await_task once the task has completed, launch_task whatever
\* the backend has done with the task in the meantime.
process_flow_return(t) ==
    /\ t \in 1..Len(tasks)
    /\ waiting[t] # None
    /\ waiting[t][1].sync => ready(tasks[t])
    /\ waiting' = [waiting EXCEPT ![t] = None]
    /\ last' = ReturnEvent(t,
                  IF ~waiting[t][1].sync
                  THEN AsyncResponse(tasks[t], t, waiting[t][1])
                  ELSE IF tasks[t].status = "failed"
                  THEN HandleException(tasks[t].error[1], waiting[t][1].flow_id)
                  ELSE SyncResponse(tasks[t].result, t, waiting[t][1]))
    /\ UNCHANGED <<flows, use_celery, tasks>>
    /\ UNCHANGED polling

\* ---------------------------------------------------------------- backend

\* The backend executing a task: pending -> running -> {succeeded, failed}.
TaskStart(t) ==
    /\ t \in 1..Len(tasks)
    /\ tasks[t].status = "pending"
    /\ tasks' = [tasks EXCEPT ![t].status = "running"]
    /\ UNCHANGED <<flows, use_celery, waiting, last>>
    /\ UNCHANGED polling

TaskSucceed(t, value) ==
    /\ t \in 1..Len(tasks)
    /\ tasks[t].status = "running"
    /\ tasks' = [tasks EXCEPT ![t].status = "succeeded", ![t].result = value]
    /\ UNCHANGED <<flows, use_celery, waiting, last>>
    /\ UNCHANGED polling

\* What an evaluation can raise: any exception type, among them the two the
\* handler has except clauses of their own for.
EvalErrors ==
    {Exc(type, <<"evaluation failed">>) :
        type \in {"Exception", "ValueError", "StatementError"}}

TaskFail(t, exc) ==
    /\ t \in 1..Len(tasks)
    /\ tasks[t].status = "running"
    /\ tasks' = [tasks EXCEPT ![t].status = "failed", ![t].error = Some(exc)]
    /\ UNCHANGED <<flows, use_celery, waiting, last>>
    /\ UNCHANGED polling

\* ---------------------------------------------------------------- get_task_status

\* StatusResult with "if hasattr" in place of "elif hasattr".
StatusResult_IfIf(task) ==
    IF ready(task)
    THEN LET r1 == IF IsDictWithResult(task.result) THEN Tail(task.result)
                   ELSE task.result
         IN IF HasAttrResult(r1) THEN Tail(r1) ELSE r1
    ELSE PyNone

\* StatusResult that never reads task.result.
StatusResult_NeverRead(task) == PyNone

\* The result get_task_status reports for a task.
StatusResult(task) ==
    IF ready(task)
    THEN IF IsDictWithResult(task.result) THEN Tail(task.result)
         ELSE IF HasAttrResult(task.result) THEN Tail(task.result)
         ELSE task.result
    ELSE PyNone

\* The handler's locals after lines 198-205: task.ready() and task.result
\* have been read, task.status has not.
StatusRead(task_id, task) ==
    Some([task_id |-> task_id, ready |-> ready(task), result |-> StatusResult(task)])

\* Lines 207-209: the None check and the response, with the status the task
\* has now and the result read before.
StatusOutcome(task, result) ==
    IF task = None
    THEN HTTPException(404, <<"Task not found">>)
    ELSE TaskStatusResponse(task[1].status, result)

\* task is what get_task returned; read is None when task.ready() raised.
StatusEvent(task_id, task, read, out) ==
    [op |-> "get_task_status", task_id |-> task_id, task |-> task,
     ready |-> read # None /\ read[1].ready, out |-> out]

\* get_task_status up to its reads of task.ready() and task.result.
\* task.ready() is called on whatever get_task returned, before the None
\* check. With the local backend nothing runs between these reads and the
\* read of task.status (the handler awaits nothing), and the handler ends in
\* this step; with the distributed backend the workers run in parallel, and
\* the read of task.status is a step of its own. One status query is
\* followed at a time.
get_task_status(task_id) ==
    LET task == get_task(tasks, task_id)
    IN /\ polling = None
       /\ IF task = None
          THEN /\ last' = StatusEvent(task_id, task, None,
                    Unhandled(Exc("AttributeError",
                                  <<"'NoneType' object has no attribute 'ready'">>)))
               /\ UNCHANGED polling
          ELSE IF use_celery
          THEN /\ polling' = StatusRead(task_id, task[1])
               /\ UNCHANGED last
          ELSE /\ last' = StatusEvent(task_id, task, StatusRead(task_id, task[1]),
                              StatusOutcome(task, StatusResult(task[1])))
               /\ UNCHANGED polling
       /\ UNCHANGED <<flows, use_celery, tasks, waiting>>

\* get_task_status from its read of task.status: the response.
get_task_status_return ==
    /\ polling # None
    /\ LET task == get_task(tasks, polling[1].task_id)
       IN last' = StatusEvent(polling[1].task_id, task, polling,
                              StatusOutcome(task, polling[1].result))
    /\ polling' = None
    /\ UNCHANGED <<flows, use_celery, tasks, waiting>>

\* ---------------------------------------------------------------- specification

\* The requests: launches by u1 of its own flow f1, in both modes, with every
\* kind of tweaks or with a session id; and the endpoint's default body (no
\* tweaks, no session id, sync) for every other user and flow id.
Requests ==
    [user : {"u1"}, flow_id : {"f1"}, tweaks : TweakKinds,
     sync : BOOLEAN, session_id : {NoSession}]
    \cup
    [user : {"u1"}, flow_id : {"f1"}, tweaks : {"none"},
     sync : BOOLEAN, session_id : Sessions]
    \cup
    [user : Users \cup {NoUser}, flow_id : FlowIds, tweaks : {"none"},
     sync : {TRUE}, session_id : {NoSession}]

\* What the collaborators can answer to a request: the message of the
\* statement error for an id that is no UUID, and for a dispatch whether the
\* backend is reachable and the status the new task is returned with.
Envs(req) ==
    IF req.user # NoUser /\ req.flow_id \in MalformedIds
    THEN [stmt : StatementMsgs, backend : {"pending"}]
    ELSE IF Prepare(flows, req.user, req.flow_id, TweakOf(req.tweaks), BadlyFormedMsg).exc # None
    THEN [stmt : {BadlyFormedMsg}, backend : {"pending"}]
    ELSE [stmt : {BadlyFormedMsg},
          backend : IF req.sync THEN {"unavailable", "pending"}
                    ELSE {"unavailable", "pending", "running"}]

Init ==
    /\ flows = InitFlows
    /\ use_celery \in BOOLEAN
    /\ tasks = <<>>
    /\ waiting = <<>>
    /\ last = [op |-> "none"]
    /\ polling = None

Next ==
    \/ \E req \in Requests : \E env \in Envs(req) : process_flow(req, env)
    \/ \E t \in 1..MaxTasks : process_flow_return(t)
    \/ \E t \in 1..MaxTasks : TaskStart(t)
    \/ \E t \in 1..MaxTasks, value \in ResultShapes : TaskSucceed(t, value)
    \/ \E t \in 1..MaxTasks, exc \in EvalErrors : TaskFail(t, exc)
    \/ \E task_id \in 1..(MaxTasks + 1) : get_task_status(task_id)
    \/ get_task_status_return

Spec == Init /\ [][Next]_vars

\* Fairness: a client that polls a task id keeps polling it, and a status
\* query that has begun runs to its end.
LiveSpec ==
    /\ Spec
    /\ \A t \in 1..MaxTasks : SF_vars(get_task_status(t))
    /\ WF_vars(get_task_status_return)

\* ---------------------------------------------------------------- properties

IsLaunch == last.op = "process_flow" /\ last.phase = "launch"
IsReturn == last.op = "process_flow" /\ last.phase = "return"
IsStatus == last.op = "get_task_status"

\* The value inside a result: the wrapper's nested result, or the value itself.
IsWrapper(value) == Head(value) \in {"dict", "obj"}
UnwrappedOnce(value) == IF IsWrapper(value) THEN Tail(value) ELSE value

\* The graphs that derive from a stored flow: its data, tweaked or not.
DerivedGraphs(f) ==
    IF flows[f].data = None THEN {}
    ELSE { [n \in Nodes |-> IF n \in ov THEN 5 ELSE flows[f].data[1][n]] :
             ov \in SUBSET Nodes }

\* The caller owns no flow with the requested id.
NotOwned(req) ==
    \/ req.flow_id \notin DOMAIN flows
    \/ flows[req.flow_id].user_id # req.user

\* C1: a status query for a task id the task service does not know ends with
\* the 404 'Task not found' outcome, never another error, never a response.
C1_UnknownTaskIsNotFound ==
    (IsStatus /\ last.task = None) =>
        last.out = HTTPException(404, <<"Task not found">>)

\* C2: a launch by a user for a well-formed flow id that names no flow of
\* theirs ends with 404 and dispatches nothing; and whatever a launch hands
\* to launch_and_await_task or launch_task derives from a flow the caller
\* owns, never from another owner's.
C2_ForeignFlowNeverDispatched ==
    IsLaunch =>
        /\ (last.req.user # NoUser /\ last.req.flow_id \notin MalformedIds
                /\ NotOwned(last.req))
            => /\ last.out = HTTPException(404, FlowNotFoundMsg(last.req.flow_id))
               /\ last.dispatched = {}
        /\ \A d \in last.dispatched :
            /\ ~NotOwned(last.req)
            /\ d.graph \in DerivedGraphs(last.req.flow_id)
            /\ \A f \in DOMAIN flows :
                   flows[f].user_id # last.req.user => d.graph \notin DerivedGraphs(f)

C2_Witness ==
    /\ IsLaunch
    /\ last.req.user = "u1" /\ last.req.flow_id = "f2"
    /\ last.out.kind = "http_error" /\ last.out.status_code = 404

\* C3: when the tweaks of a launch make the merge fail, the request is not
\* aborted by it: the dispatch call is made, with the stored, untweaked graph,
\* and the request ends in an error only if the dispatch itself fails.
C3_FailedMergeDispatchesOriginal ==
    (IsLaunch /\ last.req.tweaks = "malformed" /\ last.req.user # NoUser
        /\ ~NotOwned(last.req) /\ flows[last.req.flow_id].data # None)
    => /\ Cardinality(last.dispatched) = 1
       /\ \A d \in last.dispatched : d.graph = flows[last.req.flow_id].data[1]
       /\ \/ last.out.kind \in {"awaiting", "response"}
          \/ last.out = HTTPException(500, <<"backend unavailable">>)

C3_Witness ==
    /\ IsLaunch /\ last.req.tweaks = "malformed"
    /\ last.out.kind = "awaiting" /\ last.task_id = 1
    /\ \E d \in last.dispatched : d.graph = G1

\* C4: a synchronous launch whose task succeeded ends with the response
\* {id, result, session_id} carrying the value inside the backend's result
\* and the result's session id, whichever shape the backend returned: a raw
\* value, a dict with 'result', or an object with .result.
C4_EveryShapeSameResponse ==
    (IsReturn /\ last.sync /\ last.returned.status = "succeeded") =>
        last.out = ProcessResponse(UnwrappedOnce(last.returned.result),
                                   last.task_id, ResultSession(last.session_id))

\* An asynchronous launch that ended with a response.
AsyncLaunchReturned == IsReturn /\ ~last.sync /\ last.out.kind = "response"

\* The last status query reported task t as succeeded, with a result.
ReportedSucceeded(t) ==
    /\ IsStatus /\ last.task_id = t
    /\ last.out.kind = "response"
    /\ last.out.status = "succeeded"
    /\ last.out.result # PyNone

\* The status queries of a polling client: once the backend has completed
\* with success a task whose launch has returned, a status query for its id
\* reports succeeded with a result that is not None.
PollReportsSucceeded ==
    \A t \in 1..MaxTasks :
        (t \in 1..Len(tasks) /\ waiting[t] = None /\ tasks[t].status = "succeeded")
            ~> ReportedSucceeded(t)

\* C5 as stated: an asynchronous launch returns while its task is not
\* complete, with the status pending or running as the result and the id of
\* the new task; and once the backend has completed the task with success, a
\* polling client's status query for its id reports succeeded with a result
\* that is not None.
C5_AsyncLaunchThenPoll ==
    /\ [](AsyncLaunchReturned =>
            /\ last.out.result \in {<<"pending">>, <<"running">>}
            /\ last.out.id = last.task_id
            /\ last.out.id \in 1..Len(tasks))
    /\ PollReportsSucceeded

TaskStatuses == {"pending", "running", "succeeded", "failed"}

\* C5, amended: an asynchronous launch can return whatever the backend has
\* done with its task, completion is never waited for; it returns the id of
\* the new task and, as the result, the status the task has at that moment,
\* which is pending or running unless the backend has completed the task by
\* then; and once the backend has completed the task with success, a polling
\* client's status query for its id reports succeeded with a result that is
\* not None.
C5_AsyncLaunchReportsStatus ==
    /\ [](\A t \in 1..Len(tasks) :
            (waiting[t] # None /\ ~waiting[t][1].sync) =>
                ENABLED process_flow_return(t))
    /\ [](AsyncLaunchReturned =>
            /\ last.out.result \in {<<st>> : st \in TaskStatuses}
            /\ last.out.id = last.task_id
            /\ last.out.id \in 1..Len(tasks))
    /\ [][(last' # last /\ AsyncLaunchReturned') =>
            /\ last'.out.result = <<tasks[last'.task_id].status>>
            /\ ready(tasks[last'.task_id]) \/
                  last'.out.result \in {<<"pending">>, <<"running">>}
            /\ tasks' = tasks
            /\ waiting'[last'.task_id] = None]_vars
    /\ PollReportsSucceeded

\* An asynchronous launch returned "running" for task 1, and the backend has
\* completed the task since.
C5_Witness ==
    /\ AsyncLaunchReturned
    /\ last.out = ProcessResponse(<<"running">>, 1, "s1")
    /\ tasks[1].status = "succeeded"

\* C6: every launch response carries a session id that is not None, and the
\* request's own session id when it gave one, in synchronous and in
\* asynchronous mode.
C6_ResponseSessionNeverEmpty ==
    (IsReturn /\ last.out.kind = "response") =>
        /\ last.out.session_id # NoSession
        /\ last.session_id # NoSession => last.out.session_id = last.session_id

\* C7: a status response carries a result exactly when its status is
\* succeeded; a pending, running or failed task is reported with None.
C7_ResultIffSucceeded ==
    (IsStatus /\ last.out.kind = "response") =>
        (last.out.result # PyNone <=> last.out.status = "succeeded")

\* C8: no launch changes the stored flows; a launch with tweaks dispatches a
\* copy that differs from the stored graph in the tweaked node only, and a
\* launch without tweaks dispatches the graph as it was first stored.
C8_StoredGraphUntouched ==
    /\ flows = InitFlows
    /\ (IsLaunch /\ last.dispatched # {}) =>
          \A d \in last.dispatched :
              LET stored == InitFlows[last.req.flow_id].data[1]
              IN d.graph = IF last.req.tweaks \in {"valid", "mixed"}
                           THEN [stored EXCEPT !["nodeA"] = 5]
                           ELSE stored

C8_Witness ==
    /\ IsLaunch /\ last.req.tweaks = "valid" /\ last.req.flow_id = "f1"
    /\ last.dispatched # {}
    /\ \A d \in last.dispatched : d.graph = [nodeA |-> 5, nodeB |-> 2]
    /\ flows["f1"].data = Some(G1)

Lifecycle ==
    { <<"pending", "running">>, <<"running", "succeeded">>, <<"running", "failed">> }

\* C9: a task's status moves only pending -> running -> {succeeded, failed}
\* and a completed task's record never changes; a status query changes no
\* task; and once a status query has reported a task as succeeded or failed,
\* the next query for its id gives the identical report, status and result.
C9_TerminalReportIsRepeated ==
    [][/\ \A t \in 1..Len(tasks) :
              /\ t \in 1..Len(tasks')
              /\ ready(tasks[t]) => tasks'[t] = tasks[t]
              /\ tasks'[t].status # tasks[t].status =>
                    <<tasks[t].status, tasks'[t].status>> \in Lifecycle
       /\ (last' # last /\ IsStatus') => tasks' = tasks
       /\ (/\ IsStatus /\ IsStatus'
           /\ last'.task_id = last.task_id
           /\ last.out.kind = "response"
           /\ last.out.status \in {"succeeded", "failed"})
          => last'.out = last.out]_vars

\* C10: for a task that had succeeded when the status query read it, and
\* whose result is a dict with 'result' or an object with .result, the status
\* response carries the nested value, one wrapper removed and no more; any
\* other result is reported as it is.
C10_UnwrappedExactlyOnce ==
    (IsStatus /\ last.task # None /\ last.ready
        /\ last.task[1].status = "succeeded") =>
        LET r == last.task[1].result
        IN /\ last.out.kind = "response"
           /\ IsWrapper(r) => /\ last.out.result = Tail(r)
                              /\ Len(last.out.result) = Len(r) - 1
           /\ ~IsWrapper(r) => last.out.result = r

C10_Witness ==
    /\ IsStatus /\ last.task # None /\ last.ready
    /\ last.task[1].result = <<"dict", "obj", "v">>
    /\ last.out = TaskStatusResponse("succeeded", <<"obj", "v">>)

\* C11: a launch by a user with a flow id that is no UUID ends with an error
\* outcome of its own (InvalidInput), which is not the 404 a well-formed id
\* of no flow gets.
C11_MalformedIdIsInvalidInput ==
    (IsLaunch /\ last.req.user # NoUser /\ last.req.flow_id \in MalformedIds) =>
        /\ last.out.kind = "http_error"
        /\ last.out.status_code # 404

\* C15: a launch without an API-key user ends with 401 'Invalid API Key',
\* and nothing is dispatched for it.
C15_NoUserIsUnauthorized ==
    (IsLaunch /\ last.req.user = NoUser) =>
        /\ last.out = HTTPException(401, <<"Invalid API Key">>)
        /\ last.dispatched = {}

\* C16: a launch that has ended has ended with a ProcessResponse or with an
\* error outcome; no exception is swallowed so that the handler returns
\* neither.
C16_ResponseOrError ==
    (last.op = "process_flow" /\ last.out.kind # "awaiting") =>
        last.out.kind \in {"response", "http_error"}

\* C14: when the dispatch or the evaluation of a launch raises, the request
\* ends with the 500 outcome whose detail is the message of that error.
C14_EvaluationErrorIsInternalError ==
    /\ (IsLaunch /\ last.dispatched # {} /\ last.task_id = 0) =>
           last.out = HTTPException(500, <<"backend unavailable">>)
    /\ (IsReturn /\ last.sync /\ last.returned.status = "failed") =>
           last.out = HTTPException(500, last.returned.error[1].msg)

\* C13: a launch request dispatches at most one task: the task service gets
\* a new task only in the step of a launch, one task for its one call, and
\* never in the step in which a launch ends, whether its dispatch or its
\* evaluation failed or not.
C13_AtMostOneDispatch ==
    [][ /\ IsLaunch' => Cardinality(last'.dispatched) <= 1
        /\ Len(tasks') > Len(tasks) =>
              /\ IsLaunch'
              /\ Cardinality(last'.dispatched) = 1
              /\ Len(tasks') = Len(tasks) + 1
              /\ last'.task_id = Len(tasks') ]_vars

\* A sync launch whose evaluation failed has ended with its 500, and the
\* task service still holds the one task dispatched for it.
C13_Witness ==
    /\ IsReturn /\ last.sync
    /\ last.returned.status = "failed"
    /\ last.out.kind = "http_error"
    /\ Len(tasks) = 1

====
